---- MODULE Spec2Model ----
(***************************************************************************)
(* Model of the city-metrics pipeline: the feature builder and training    *)
(* run of train_models.py, the ingestion cycle of collect_data.py and the  *)
(* PM2.5 -> US AQI conversion of app.py.                                    *)
(*                                                                         *)
(* A cell of a data frame is an option: None (SQL NULL / NaN) or Some(v).  *)
(* A row is a record [id, timestamp, area_name, cells]; timestamps are     *)
(* whole hours counted from 1970-01-01 00:00 UTC.  A rolling mean is kept  *)
(* exactly, as the pair [sum, n] of the observations it averages.          *)
(***************************************************************************)
EXTENDS Integers, Sequences, FiniteSets, TLC

VARIABLES
    pc,           \* position of the running script
    df_in,        \* create_features: the frame handed in
    columns,      \* the columns of city_metrics as SELECT * returns them
    df_out,       \* create_features: the frame returned
    df_alt,       \* create_features on df_in with one raw value replaced
    rep,          \* the replacement made: Some([id, col]) or None
    df_full,      \* train_models: the rows read from the store
    area_i,       \* train_models: index into the distinct areas
    target_i,     \* train_models: index into TARGET_COLS
    df_featured,  \* train_models: create_features(df_area)
    split,        \* train_models: the last train_test_split, Some([area, target, train, test])
    models,       \* the artifacts written by this run: <<area, target>> -> [features]
    models_dir,   \* whether os.makedirs('models') ran
    log,          \* the lines printed, as records
    secrets,      \* collect_data: whether the three environment secrets are set
    table,        \* collect_data: the rows of city_metrics
    table0,       \* collect_data: the table as the cycle found it
    all_data,     \* collect_data: the data points fetched this cycle
    pm25,         \* app: the concentration given, in hundredths of ug/m3
    aqi           \* app: the score returned, an exact fraction [num, den]

FeatVars == <<df_in, df_out, df_alt, rep>>

TrainVars == <<df_full, area_i, target_i, df_featured, split, models, models_dir>>

CollectVars == <<secrets, table, table0, all_data>>

AppVars == <<pm25, aqi>>

vars == <<pc, columns, log, FeatVars, TrainVars, CollectVars, AppVars>>

None == <<>>
Some(v) == <<v>>
IsNone(x) == x = None
Val(x) == x[1]

\* the variables of the scripts a specification does not run
FeatUnused == df_in = <<>> /\ df_out = <<>> /\ df_alt = <<>> /\ rep = None

TrainUnused ==
    /\ df_full = <<>> /\ area_i = 0 /\ target_i = 0 /\ df_featured = <<>>
    /\ split = None /\ models = <<>> /\ models_dir = FALSE

CollectUnused == secrets = FALSE /\ table = <<>> /\ table0 = <<>> /\ all_data = <<>>

AppUnused == pm25 = None /\ aqi = None

(***************************************************************************)
(* Columns                                                                 *)
(***************************************************************************)
TARGET_COLS == <<"aqi", "pm25", "pm10", "temperature", "humidity">>

TargetSet == {TARGET_COLS[k] : k \in 1..Len(TARGET_COLS)}

\* the value columns of CREATE TABLE city_metrics
ReadingCols == {"aqi", "pm25", "pm10", "no2", "o3", "co", "temperature", "humidity"}

CalendarCols == {"hour", "day_of_week", "month"}

\* f'{col}_lag1'
Lag1Name(col) ==
    CASE col = "aqi" -> "aqi_lag1"
      [] col = "pm25" -> "pm25_lag1"
      [] col = "pm10" -> "pm10_lag1"
      [] col = "temperature" -> "temperature_lag1"
      [] col = "humidity" -> "humidity_lag1"

\* f'{col}_roll_avg3'
RollName(col) ==
    CASE col = "aqi" -> "aqi_roll_avg3"
      [] col = "pm25" -> "pm25_roll_avg3"
      [] col = "pm10" -> "pm10_roll_avg3"
      [] col = "temperature" -> "temperature_roll_avg3"
      [] col = "humidity" -> "humidity_roll_avg3"

(***************************************************************************)
(* Calendar features of a timestamp (DatetimeIndex.hour/dayofweek/month).  *)
(* 1970-01-01 was a Thursday (dayofweek 3); the month table is that of a   *)
(* common year, exact for the timestamps used here (all within 1970).      *)
(***************************************************************************)
HourOf(ts) == ts % 24

DayOfWeekOf(ts) == ((ts \div 24) + 3) % 7

MonthOf(ts) ==
    LET d == (ts \div 24) % 365
    IN  CASE d < 31 -> 1   [] d < 59 -> 2   [] d < 90 -> 3   [] d < 120 -> 4
          [] d < 151 -> 5  [] d < 181 -> 6  [] d < 212 -> 7  [] d < 243 -> 8
          [] d < 273 -> 9  [] d < 304 -> 10 [] d < 334 -> 11 [] OTHER -> 12

(***************************************************************************)
(* pandas Series operations used by create_features                         *)
(***************************************************************************)
\* Series.shift(1): every value moves one position down, the first is NaN
shift(s) == [i \in 1..Len(s) |-> IF i = 1 THEN None ELSE s[i - 1]]

RECURSIVE SumAt(_, _)
SumAt(s, idx) ==
    IF idx = {} THEN 0
    ELSE LET j == CHOOSE j \in idx : TRUE
         IN  Val(s[j]) + SumAt(s, idx \ {j})

\* Series.rolling(window, min_periods).mean(): at position i the mean of the
\* non-NaN values among the last `window` positions up to and including i,
\* NaN when fewer than min_periods of them are non-NaN
rolling_mean(s, window, min_periods) ==
    [i \in 1..Len(s) |->
        LET lo == IF i - window + 1 < 1 THEN 1 ELSE i - window + 1
            obs == {j \in lo..i : ~IsNone(s[j])}
        IN  IF Cardinality(obs) >= min_periods
            THEN Some([sum |-> SumAt(s, obs), n |-> Cardinality(obs)])
            ELSE None]

\* the rolling mean without the shift: the current row's own value leaks in
RollingInputLeaky(s) == s

\* the series create_features rolls over: df[col].shift(1)
RollingInput(s) == shift(s)

\* DataFrame.dropna(): rows with any NaN cell are removed, order kept
dropna(df) == SelectSeq(df, LAMBDA r : \A c \in DOMAIN r.cells : ~IsNone(r.cells[c]))

SeriesOf(df, col) == [i \in 1..Len(df) |-> df[i].cells[col]]

\* the columns of the frame create_features returns
FeaturedColumns(cols) ==
    cols \cup CalendarCols
         \cup {Lag1Name(c) : c \in TargetSet \cap cols}
         \cup {RollName(c) : c \in TargetSet \cap cols}

\* create_features without the final dropna: one row per input row, in the
\* input's order (create_features never sorts)
WithFeatures(df, cols) ==
    LET present == TargetSet \cap cols
        lag1 == [c \in present |-> shift(SeriesOf(df, c))]
        roll == [c \in present |-> rolling_mean(RollingInput(SeriesOf(df, c)), 3, 1)]
        cell(i, c) ==
            IF c \in cols THEN df[i].cells[c]
            ELSE IF c = "hour" THEN Some(HourOf(df[i].timestamp))
            ELSE IF c = "day_of_week" THEN Some(DayOfWeekOf(df[i].timestamp))
            ELSE IF c = "month" THEN Some(MonthOf(df[i].timestamp))
            ELSE IF \E t \in present : c = Lag1Name(t)
                 THEN lag1[CHOOSE t \in present : c = Lag1Name(t)][i]
            ELSE roll[CHOOSE t \in present : c = RollName(t)][i]
    IN  [i \in 1..Len(df) |->
            [df[i] EXCEPT !.cells = [c \in FeaturedColumns(cols) |-> cell(i, c)]]]

create_features(df, cols) == dropna(WithFeatures(df, cols))

(***************************************************************************)
(* Feature builder on its own: create_features applied to one area's rows  *)
(***************************************************************************)
MaxLen == 5

RawValues == {None, Some(1), Some(2)}

Orders(n) == {f \in [1..n -> 1..n] : \A a, b \in 1..n : f[a] = f[b] => a = b}

\* one area's rows; row i carries id i and timestamp 21 + ts[i], column
\* `focus` holds fv[i], column co is NULL in row nullAt (0: in no row) and
\* every other cell of row i holds i
AreaRows(n, ts, focus, fv, nullAt) ==
    [i \in 1..n |->
        [id |-> i, timestamp |-> 21 + ts[i], area_name |-> "Colaba",
         cells |-> [c \in ReadingCols |->
                       IF c = "co" /\ i = nullAt THEN None
                       ELSE IF c = focus THEN fv[i]
                       ELSE Some(i)]]]

\* the frames create_features is applied to: rows in ascending time order
\* with any raw values (NULL included) of one target metric, or with a NULL
\* co in one row, or fully valued rows in any order
InitFeat ==
    /\ pc = "feat_input"
    /\ columns = ReadingCols
    /\ \E n \in 1..MaxLen :
          \/ \E focus \in TargetSet, fv \in [1..n -> RawValues] :
                df_in = AreaRows(n, [i \in 1..n |-> i], focus, fv, 0)
          \/ \E nullAt \in 1..n :
                df_in = AreaRows(n, [i \in 1..n |-> i], "aqi", [i \in 1..n |-> Some(i)], nullAt)
          \/ \E ts \in Orders(n) :
                df_in = AreaRows(n, ts, "aqi", [i \in 1..n |-> Some(i)], 0)
    /\ df_out = <<>> /\ df_alt = <<>> /\ rep = None
    /\ log = <<>>
    /\ TrainUnused
    /\ CollectUnused
    /\ AppUnused

Featurize ==
    /\ pc = "feat_input"
    /\ df_out' = create_features(df_in, columns)
    /\ pc' = "featured"
    /\ UNCHANGED <<df_in, df_alt, rep, columns, log, TrainVars, CollectVars, AppVars>>

PosOfId(df, id) == CHOOSE i \in 1..Len(df) : df[i].id = id

HasId(df, id) == \E i \in 1..Len(df) : df[i].id = id

\* the same frame with the raw value of `col` in the row `id` set to v
ReplaceRaw(df, id, col, v) ==
    [i \in 1..Len(df) |->
        IF df[i].id = id THEN [df[i] EXCEPT !.cells[col] = Some(v)] ELSE df[i]]

\* create_features again, after one output row's own raw value of a target
\* metric was replaced by another non-null value
Refeaturize ==
    /\ pc = "featured"
    /\ \E k \in 1..Len(df_out), col \in TargetSet \cap columns :
          LET id == df_out[k].id
              v  == Val(df_out[k].cells[col]) + 1
          IN  /\ df_alt' = create_features(ReplaceRaw(df_in, id, col, v), columns)
              /\ rep' = Some([id |-> id, col |-> col])
    /\ pc' = "replaced"
    /\ UNCHANGED <<df_in, df_out, columns, log, TrainVars, CollectVars, AppVars>>

NextFeat == Featurize \/ Refeaturize

SpecFeat == InitFeat /\ [][NextFeat]_vars

(***************************************************************************)
(* The training run of train_models.py                                     *)
(***************************************************************************)
MinTotalRows == 100

MinFeaturedRows == 50

MaxAreaRows == 56

\* the numbers of rows Colaba may hold in the store, and those Worli may
AreaRowCounts == (MaxAreaRows - 8)..MaxAreaRows

OtherRowCounts == {MaxAreaRows - 8, MaxAreaRows - 5, MaxAreaRows - 2}

\* the store after the ingestion cycles 1, 2, ...: cycle c appends a Colaba
\* row while c <= nA and then a Worli row while c <= nB, both stamped with
\* hour c; ids are the SERIAL ids in insertion order.  coNull says where
\* Colaba's co is NULL: in no row, in the row of cycle 10, or in every row.
StoreRows(nA, nB, coNull) ==
    LET mn == IF nA < nB THEN nA ELSE nB
        areaOf(k) == IF k <= 2 * mn
                     THEN (IF k % 2 = 1 THEN "Colaba" ELSE "Worli")
                     ELSE (IF nA > nB THEN "Colaba" ELSE "Worli")
        cycleOf(k) == IF k <= 2 * mn THEN (k + 1) \div 2 ELSE k - mn
    IN  [k \in 1..(nA + nB) |->
            [id |-> k, timestamp |-> cycleOf(k), area_name |-> areaOf(k),
             cells |-> [c \in ReadingCols |->
                 IF /\ c = "co" /\ areaOf(k) = "Colaba"
                    /\ \/ coNull = "always"
                       \/ coNull = "once" /\ cycleOf(k) = 10
                 THEN None
                 ELSE Some((cycleOf(k) % 7) + 1)]]]

\* SELECT * over a table that has only the columns `cols`
Project(df, cols) ==
    [k \in 1..Len(df) |-> [df[k] EXCEPT !.cells = [c \in cols |-> df[k].cells[c]]]]

\* the store the run reads: every column present, with Colaba's co NULL
\* never, once or always; or fully valued with one target column absent
\* from the table
InitTrain ==
    /\ pc = "train_start"
    /\ \E nA \in AreaRowCounts, nB \in OtherRowCounts :
          \/ /\ columns = ReadingCols
             /\ \E coNull \in {"never", "once", "always"} :
                   df_full = StoreRows(nA, nB, coNull)
          \/ \E t \in TargetSet :
                /\ columns = ReadingCols \ {t}
                /\ df_full = Project(StoreRows(nA, nB, "never"), columns)
    /\ area_i = 0 /\ target_i = 0 /\ df_featured = <<>> /\ split = None
    /\ models = <<>> /\ models_dir = FALSE /\ log = <<>>
    /\ FeatUnused
    /\ CollectUnused
    /\ AppUnused

\* Series.unique(): the distinct values in order of first appearance
unique(s) ==
    LET firsts == SelectSeq([k \in 1..Len(s) |-> k],
                            LAMBDA k : \A j \in 1..(k - 1) : s[j] # s[k])
    IN  [i \in 1..Len(firsts) |-> s[firsts[i]]]

Areas(df) == unique([k \in 1..Len(df) |-> df[k].area_name])

\* df_full[df_full['area_name'] == area]
RowsOfArea(df, area) == SelectSeq(df, LAMBDA r : r.area_name = area)

\* the global threshold with the boundary counted as too few: len(df_full) <= 100
TooFewRowsInclusive(n) == n <= MinTotalRows

\* len(df_full) < 100
TooFewRows(n) == n < MinTotalRows

\* the per-area threshold one row too low: len(df_featured) < 49
TooFewFeaturedOffByOne(n) == n < MinFeaturedRows - 1

\* len(df_featured) < 50
TooFewFeatured(n) == n < MinFeaturedRows

feature_cols(target_col) ==
    <<"hour", "day_of_week", "month", Lag1Name(target_col), RollName(target_col)>>

\* [f for f in feature_cols if f in df_featured.columns]
valid_features(target_col, cols) ==
    SelectSeq(feature_cols(target_col), LAMBDA f : f \in FeaturedColumns(cols))

InSeq(x, s) == \E k \in 1..Len(s) : s[k] = x

\* the skip test with only its first half: `if not valid_features`
SkipTargetEmptyOnly(target_col, cols) ==
    valid_features(target_col, cols) = <<>>

\* not valid_features or f'{target_col}_lag1' not in valid_features
SkipTarget(target_col, cols) ==
    \/ valid_features(target_col, cols) = <<>>
    \/ ~InSeq(Lag1Name(target_col), valid_features(target_col, cols))

\* the test size truncated instead of rounded up: int(0.2 * n)
n_test_truncated(n) == (2 * n) \div 10

\* sklearn's test size for test_size=0.2: ceil(0.2 * n)
n_test(n) == (2 * n + 9) \div 10

\* train_test_split(X, y, test_size=0.2, shuffle=False): the first
\* n - n_test rows train, the following n_test rows test; a partition is
\* kept as the sequence of its rows' ids
train_test_split(df) ==
    LET n == Len(df)
        n_train == n - n_test(n)
    IN  [train |-> [k \in 1..n_train |-> df[k].id],
         test  |-> [k \in 1..(n - n_train) |-> df[n_train + k].id]]

Say(kind, area, target) == [kind |-> kind, area |-> area, target |-> target]

TrainIdle == UNCHANGED <<columns, df_full, FeatVars, CollectVars, AppVars>>

\* lines 35-38: the global threshold, then os.makedirs
Gate ==
    /\ pc = "train_start"
    /\ IF TooFewRows(Len(df_full))
       THEN /\ log' = Append(log, Say("not_enough_data", "", ""))
            /\ pc' = "train_done"
            /\ UNCHANGED <<models_dir, area_i>>
       ELSE /\ models_dir' = TRUE
            /\ area_i' = 1
            /\ pc' = "train_area"
            /\ UNCHANGED log
    /\ UNCHANGED <<target_i, df_featured, split, models>>
    /\ TrainIdle

\* lines 39-46: the next area, its features and the per-area threshold
ProcessArea ==
    /\ pc = "train_area"
    /\ area_i <= Len(Areas(df_full))
    /\ LET area == Areas(df_full)[area_i]
           featured == create_features(RowsOfArea(df_full, area), columns)
       IN  /\ df_featured' = featured
           /\ IF TooFewFeatured(Len(featured))
              THEN /\ log' = log \o <<Say("processing", area, ""),
                                      Say("not_enough_featured", area, "")>>
                   /\ area_i' = area_i + 1
                   /\ UNCHANGED <<pc, target_i>>
              ELSE /\ log' = Append(log, Say("processing", area, ""))
                   /\ target_i' = 1
                   /\ pc' = "train_target"
                   /\ UNCHANGED area_i
    /\ UNCHANGED <<split, models, models_dir>>
    /\ TrainIdle

\* the for loop over the areas is exhausted: the script ends
Finish ==
    /\ pc = "train_area"
    /\ area_i > Len(Areas(df_full))
    /\ pc' = "train_done"
    /\ UNCHANGED <<area_i, target_i, df_featured, split, models, models_dir, log>>
    /\ TrainIdle

\* the loop statement after one target: the next target, or the next area
AfterTarget ==
    IF target_i < Len(TARGET_COLS)
    THEN target_i' = target_i + 1 /\ UNCHANGED <<pc, area_i>>
    ELSE target_i' = 0 /\ area_i' = area_i + 1 /\ pc' = "train_area"

\* lines 49-79: one (area, target) unit.  model.fit, model.predict and
\* mean_squared_error may raise; nothing catches it, so the script ends
\* with a traceback.
TrainTarget ==
    /\ pc = "train_target"
    /\ LET area == Areas(df_full)[area_i]
           target_col == TARGET_COLS[target_i]
       IN  IF SkipTarget(target_col, columns)
           THEN /\ log' = Append(log, Say("skip_features", area, target_col))
                /\ AfterTarget
                /\ UNCHANGED <<split, models>>
           ELSE /\ split' = Some([area |-> area, target |-> target_col]
                                 @@ train_test_split(df_featured))
                /\ \/ /\ models' = (<<area, target_col>> :>
                                       [features |-> valid_features(target_col, columns)])
                                   @@ models
                      /\ log' = log \o <<Say("training", area, target_col),
                                         Say("trained", area, target_col),
                                         Say("saved", area, target_col)>>
                      /\ AfterTarget
                   \/ /\ log' = log \o <<Say("training", area, target_col),
                                         Say("traceback", area, target_col)>>
                      /\ pc' = "train_crashed"
                      /\ UNCHANGED <<models, area_i, target_i>>
    /\ UNCHANGED <<df_featured, models_dir>>
    /\ TrainIdle

NextTrain == Gate \/ ProcessArea \/ TrainTarget \/ Finish

SpecTrain == InitTrain /\ [][NextTrain]_vars

(***************************************************************************)
(* The ingestion cycle of collect_data.py                                  *)
(***************************************************************************)
LOCATIONS == <<"Colaba", "Worli", "Bandra", "Andheri", "Malad", "Kandivali", "Borivali">>

\* a value of a JSON payload
JNull == [t |-> "null"]
JNum(v) == [t |-> "num", v |-> v]
JStr(str) == [t |-> "str", s |-> str]

\* what the two providers answer for one location: the WAQI call raises
\* (timeout, connection error, body that is not JSON), answers with a status
\* other than "ok", answers "ok" without data.iaqi, or answers "ok"; the
\* weather call raises, answers with a cod other than 200, or answers 200.
\* data.aqi is a number or the text "-" (what the feed holds for a station
\* without a current reading); iaqi.co is present or not.
Responses ==
    {r \in [waqi : {"raises", "not_ok", "ok_no_iaqi", "ok"},
            weather : {"raises", "not_200", "ok"},
            aqi : {JNum(7), JStr("-")},
            co : {JNum(3), JNull}] :
        r.aqi.t = "str" => r.co.t = "num"}

\* lines 24-61; every exception inside is caught and gives None
fetch_live_data(area_name, r, now) ==
    IF r.waqi \in {"raises", "not_ok"} THEN None
    ELSE IF r.weather \in {"raises", "not_200"} THEN None
    ELSE IF r.waqi = "ok_no_iaqi" THEN None
    ELSE Some([timestamp |-> now, area_name |-> area_name,
               cells |-> [c \in ReadingCols |->
                             IF c = "aqi" THEN r.aqi
                             ELSE IF c = "co" THEN r.co
                             ELSE JNum(5)]])

\* whether PostgreSQL takes the value for a FLOAT column
IsFloatInput(j) == j.t # "str"

\* the row INSERT stores for a data point, with the next SERIAL id
InsertedRow(dp, id) ==
    [id |-> id, timestamp |-> dp.timestamp, area_name |-> dp.area_name,
     cells |-> [c \in ReadingCols |->
                   IF dp.cells[c].t = "num" THEN Some(dp.cells[c].v) ELSE None]]

\* the data points `if dp:` lets through, in order
Truthy(data_points) == SelectSeq(data_points, LAMBDA dp : dp # None)

InitCollect ==
    /\ pc = "collect_start"
    /\ secrets \in BOOLEAN
    /\ table0 \in {<<>>, StoreRows(1, 1, "never")}
    /\ table = table0
    /\ all_data = <<>>
    /\ columns = ReadingCols /\ log = <<>>
    /\ FeatUnused /\ TrainUnused /\ AppUnused

CollectIdle == UNCHANGED <<columns, secrets, table0, FeatVars, TrainVars, AppVars>>

\* lines 92-96
StartCollect ==
    /\ pc = "collect_start"
    /\ IF ~secrets
       THEN /\ log' = Append(log, Say("fatal_secrets_missing", "", ""))
            /\ pc' = "collect_finished"
       ELSE /\ pc' = "collect_fetch"
            /\ UNCHANGED log
    /\ UNCHANGED <<table, all_data>>
    /\ CollectIdle

\* lines 97-100: one turn of the loop over LOCATIONS
FetchLocation ==
    /\ pc = "collect_fetch"
    /\ Len(all_data) < Len(LOCATIONS)
    /\ \E r \in Responses :
          all_data' = Append(all_data,
                             fetch_live_data(LOCATIONS[Len(all_data) + 1], r, 2))
    /\ UNCHANGED <<pc, table, log>>
    /\ CollectIdle

\* lines 102-106 and store_data: every data point is inserted in one
\* transaction committed at the end; an INSERT the database rejects raises
\* out of store_data, nothing is committed and the script ends with a
\* traceback
StoreData ==
    /\ pc = "collect_fetch"
    /\ Len(all_data) = Len(LOCATIONS)
    /\ LET dps == Truthy(all_data)
       IN  IF dps = <<>>
           THEN /\ log' = Append(log, Say("nothing_to_store", "", ""))
                /\ pc' = "collect_finished"
                /\ UNCHANGED table
           ELSE IF \A k \in 1..Len(dps), c \in ReadingCols : IsFloatInput(Val(dps[k]).cells[c])
           THEN /\ table' = table \o [k \in 1..Len(dps) |->
                                         InsertedRow(Val(dps[k]), Len(table) + k)]
                /\ log' = Append(log, Say("stored", "", ""))
                /\ pc' = "collect_finished"
           ELSE /\ log' = Append(log, Say("traceback", "", ""))
                /\ pc' = "collect_crashed"
                /\ UNCHANGED table
    /\ UNCHANGED all_data
    /\ CollectIdle

NextCollect == StartCollect \/ FetchLocation \/ StoreData

SpecCollect == InitCollect /\ [][NextCollect]_vars

(***************************************************************************)
(* pm25_to_us_aqi of app.py.  Concentrations are in hundredths of ug/m3;   *)
(* the score is the exact fraction [num, den] the formula denotes.         *)
(***************************************************************************)
MaxPm25Step == 20020

\* the concentrations tried: every multiple of 0.05 from -0.50 up
Pm25Inputs == {5 * k : k \in (-10)..MaxPm25Step}

Whole(v) == [num |-> v, den |-> 1]

\* ((i_hi - i_lo) / (c_hi - c_lo)) * (c - c_lo) + i_lo
Interpolate(i_lo, i_hi, c_lo, c_hi, c) ==
    [num |-> (i_hi - i_lo) * (c - c_lo) + i_lo * (c_hi - c_lo), den |-> c_hi - c_lo]

pm25_to_us_aqi(x) ==
    IF IsNone(x) THEN None
    ELSE LET c == Val(x)
         IN  IF c < 0 THEN Some(Whole(0))
             ELSE IF c > 100000 THEN Some(Whole(500))
             ELSE IF 0 <= c /\ c <= 1200 THEN Some(Interpolate(0, 50, 0, 1200, c))
             ELSE IF 1210 <= c /\ c <= 3540 THEN Some(Interpolate(51, 100, 1210, 3540, c))
             ELSE IF 3550 <= c /\ c <= 5540 THEN Some(Interpolate(101, 150, 3550, 5540, c))
             ELSE IF 5550 <= c /\ c <= 15040 THEN Some(Interpolate(151, 200, 5550, 15040, c))
             ELSE IF 15050 <= c /\ c <= 25040 THEN Some(Interpolate(201, 300, 15050, 25040, c))
             ELSE IF 25050 <= c /\ c <= 35040 THEN Some(Interpolate(301, 400, 25050, 35040, c))
             ELSE Some(Interpolate(401, 500, 35050, 50040, c))

InitApp ==
    /\ pc = "aqi_input"
    /\ pm25 \in {None} \cup {Some(c) : c \in Pm25Inputs}
    /\ aqi = None
    /\ columns = ReadingCols /\ log = <<>>
    /\ FeatUnused /\ TrainUnused /\ CollectUnused

\* df['pm25'].apply(pm25_to_us_aqi), for one value
Convert ==
    /\ pc = "aqi_input"
    /\ aqi' = pm25_to_us_aqi(pm25)
    /\ pc' = "aqi_done"
    /\ UNCHANGED <<pm25, columns, log, FeatVars, TrainVars, CollectVars>>

NextApp == Convert

SpecApp == InitApp /\ [][NextApp]_vars

(***************************************************************************)
(* Properties of the feature builder (checked under SpecFeat)              *)
(***************************************************************************)
IsAscending(df) == \A i \in 1..(Len(df) - 1) : df[i].timestamp <= df[i + 1].timestamp

\* the mean of the non-null values of column m at the positions idx of df,
\* as the pair [sum, n]
MeanAt(df, m, idx) ==
    LET obs == {j \in idx : ~IsNone(df[j].cells[m])}
    IN  [sum |-> SumAt(SeriesOf(df, m), obs), n |-> Cardinality(obs)]

\* the positions of value[max(0, i-3) : i], for the row at position p = i + 1
PriorThree(p) == {j \in 1..(p - 1) : j >= p - 3}

RowOfId(df, id) == df[PosOfId(df, id)]

\* C1: for input in ascending time order, every output row, sitting at
\* position p of the input, has m_lag1 equal to the raw value of m in row
\* p - 1 and m_roll_avg3 equal to the mean (over the non-null values) of m in
\* the up to three rows before p, for every target metric m; and after that
\* row's own raw value of m is replaced by another non-null value, the row
\* still has the same m_lag1 and m_roll_avg3.
C1_LagAndRollFromPriorRows ==
    (pc \in {"featured", "replaced"} /\ IsAscending(df_in)) =>
        /\ \A k \in 1..Len(df_out) :
              LET r == df_out[k]
                  p == PosOfId(df_in, r.id)
              IN  /\ p > 1
                  /\ \A m \in TargetSet \cap columns :
                        /\ r.cells[Lag1Name(m)] = df_in[p - 1].cells[m]
                        /\ r.cells[RollName(m)] = Some(MeanAt(df_in, m, PriorThree(p)))
        /\ pc = "replaced" =>
              LET id == Val(rep).id
                  m  == Val(rep).col
              IN  /\ HasId(df_alt, id)
                  /\ RowOfId(df_alt, id).cells[m] # RowOfId(df_out, id).cells[m]
                  /\ RowOfId(df_alt, id).cells[Lag1Name(m)] = RowOfId(df_out, id).cells[Lag1Name(m)]
                  /\ RowOfId(df_alt, id).cells[RollName(m)] = RowOfId(df_out, id).cells[RollName(m)]

\* C1 witness: the fifth row of an ascending input, whose window of prior rows
\* no longer holds the first row and holds a NULL pm25, had its own pm25
\* replaced
C1_Witness ==
    /\ pc = "replaced"
    /\ IsAscending(df_in)
    /\ Len(df_in) = 5
    /\ rep = Some([id |-> 5, col |-> "pm25"])
    /\ IsNone(df_in[3].cells["pm25"])
    /\ HasId(df_out, 5)

\* C2: whatever the order of the input rows, the output of create_features
\* is sorted ascending by timestamp.
C2_OutputSortedByTimestamp ==
    pc = "featured" => IsAscending(df_out)

\* C5: a row whose own value of a target metric m, m_lag1 and m_roll_avg3
\* are all defined takes part in the featured rows metric m is trained on,
\* whatever its other columns hold.
C5_MetricsFeaturizedIndependently ==
    pc = "featured" =>
        \A i \in 1..Len(df_in), m \in TargetSet \cap columns :
            LET r == WithFeatures(df_in, columns)[i]
            IN  (/\ ~IsNone(r.cells[m])
                 /\ ~IsNone(r.cells[Lag1Name(m)])
                 /\ ~IsNone(r.cells[RollName(m)]))
                => HasId(df_out, df_in[i].id)

(***************************************************************************)
(* Properties of the training run (checked under SpecTrain)                *)
(***************************************************************************)
FeaturedOf(area) == create_features(RowsOfArea(df_full, area), columns)

Logged(kind, area, target) == InSeq(Say(kind, area, target), log)

TargetIndex(t) == CHOOSE k \in 1..Len(TARGET_COLS) : TARGET_COLS[k] = t

\* the run is past the unit (area number i, target t)
UnitDone(i, t) ==
    \/ i < area_i
    \/ i = area_i /\ pc \in {"train_target", "train_crashed"} /\ TargetIndex(t) < target_i

FiveFeatures(t) == <<"hour", "day_of_week", "month", Lag1Name(t), RollName(t)>>

\* C3: whenever a unit is split for training on n >= 50 featured rows, the
\* training partition is the first floor(0.8 n) featured rows, the evaluation
\* partition is the rest in order, and the featured rows are in time order.
C3_ChronologicalSplit ==
    (split # None /\ df_featured # <<>> /\ df_featured[1].area_name = Val(split).area) =>
        LET s == Val(split)
            n == Len(df_featured)
            n_train == (8 * n) \div 10
        IN  n >= MinFeaturedRows =>
               /\ Len(s.train) = n_train
               /\ Len(s.test) = n - n_train
               /\ \A k \in 1..Len(s.train) : k <= n /\ s.train[k] = df_featured[k].id
               /\ \A k \in 1..Len(s.test) :
                     n_train + k <= n /\ s.test[k] = df_featured[n_train + k].id
               /\ IsAscending(df_featured)

\* C3 witness: a unit split on 53 featured rows, 42 of them for training
C3_Witness ==
    /\ split # None
    /\ Len(df_featured) = 53
    /\ df_featured[1].area_name = Val(split).area
    /\ Len(Val(split).train) = 42
    /\ Len(Val(split).test) = 11

\* C4: when the run has ended, every unit with enough data and all its
\* feature columns whose own fit did not fail has its artifact written.
C4_FitFailureIsolated ==
    pc \in {"train_done", "train_crashed"} =>
        \A i \in 1..Len(Areas(df_full)), t \in TargetSet :
            LET a == Areas(df_full)[i]
            IN  (/\ ~TooFewRows(Len(df_full))
                 /\ Len(FeaturedOf(a)) >= MinFeaturedRows
                 /\ \A k \in 1..5 : FiveFeatures(t)[k] \in FeaturedColumns(columns)
                 /\ ~Logged("traceback", a, t))
                => <<a, t>> \in DOMAIN models

\* C6: an area with fewer than 50 featured rows never gets an artifact for
\* any metric; once the run has come to it, the insufficient-data skip of the
\* area (covering all its metrics) is reported and the run has moved on to
\* the area that follows.
C6_AreaBelowThresholdSkipped ==
    pc \in {"train_area", "train_target", "train_done", "train_crashed"} =>
        \A i \in 1..Len(Areas(df_full)) :
            LET a == Areas(df_full)[i]
            IN  Len(FeaturedOf(a)) < MinFeaturedRows =>
                   /\ \A t \in TargetSet : <<a, t>> \notin DOMAIN models
                   /\ Logged("processing", a, "") =>
                         /\ Logged("not_enough_featured", a, "")
                         /\ \A t \in TargetSet : ~Logged("training", a, t)
                         /\ area_i > i
                         /\ i < Len(Areas(df_full)) =>
                               \/ Logged("processing", Areas(df_full)[i + 1], "")
                               \/ pc = "train_area" /\ area_i = i + 1

\* C6 witness: Colaba, with 49 featured rows, was skipped and Worli, which
\* follows, was trained
C6_Witness ==
    /\ pc = "train_done"
    /\ Len(FeaturedOf("Colaba")) = 49
    /\ Logged("not_enough_featured", "Colaba", "")
    /\ <<"Worli", "humidity">> \in DOMAIN models

\* C7: with fewer than 100 rows in the store the run trains nothing, writes
\* no artifact, does not create the artifact directory and reports that
\* there is not enough data; with 100 rows or more the directory is created
\* and the loop over the areas is entered.
C7_GlobalThreshold ==
    IF Len(df_full) < MinTotalRows
    THEN /\ models = <<>> /\ ~models_dir /\ split = None /\ df_featured = <<>>
         /\ pc \in {"train_start", "train_done"}
         /\ pc = "train_done" => log = <<Say("not_enough_data", "", "")>>
    ELSE pc # "train_start" =>
            /\ models_dir
            /\ ~Logged("not_enough_data", "", "")
            /\ \/ pc = "train_area" /\ area_i = 1
               \/ Logged("processing", Areas(df_full)[1], "")

\* C7 witness: a run over 99 rows has ended
C7_Witness ==
    /\ pc = "train_done"
    /\ Len(df_full) = 99
    /\ Logged("not_enough_data", "", "")

\* C8: an artifact exists only if all five feature columns of its metric
\* exist in the featured data, and it stores exactly the ordered list of
\* the five names; a unit the run is past, one of whose five columns is
\* absent, has no artifact and a logged skip.
C8_FeatureListExact ==
    \A i \in 1..Len(Areas(df_full)), t \in TargetSet :
        LET a == Areas(df_full)[i]
            allFive == \A k \in 1..5 : FiveFeatures(t)[k] \in FeaturedColumns(columns)
        IN  /\ <<a, t>> \in DOMAIN models =>
                  allFive /\ models[<<a, t>>].features = FiveFeatures(t)
            /\ (~allFive /\ UnitDone(i, t)) =>
                  /\ <<a, t>> \notin DOMAIN models
                  /\ \/ Logged("skip_features", a, t)
                     \/ Logged("not_enough_featured", a, "")

\* C8 witness: pm10 is absent from the store; pm10 was skipped for Colaba
\* and the other four metrics of Colaba have their artifacts
C8_Witness ==
    /\ "pm10" \notin columns
    /\ Logged("skip_features", "Colaba", "pm10")
    /\ <<"Colaba", "pm10">> \notin DOMAIN models
    /\ <<"Colaba", "humidity">> \in DOMAIN models
    /\ <<"Colaba", "aqi">> \in DOMAIN models

(***************************************************************************)
(* Properties of the ingestion cycle (checked under SpecCollect)           *)
(***************************************************************************)
\* the locations for which both provider calls succeeded
Succeeded == {k \in 1..Len(all_data) : all_data[k] # None}

\* C9: when a cycle run with its secrets has ended, every location was
\* fetched, the rows appended to the store are as many as the locations for
\* which both provider calls succeeded, and the rows the store already held
\* are unchanged.
C9_FetchFailuresIsolated ==
    /\ (secrets /\ pc \in {"collect_finished", "collect_crashed"}) =>
          /\ Len(all_data) = Len(LOCATIONS)
          /\ Len(table) - Len(table0) = Cardinality(Succeeded)
    /\ Len(table) >= Len(table0)
    /\ \A k \in 1..Len(table0) : table[k] = table0[k]

(***************************************************************************)
(* Properties of pm25_to_us_aqi (checked under SpecApp)                    *)
(***************************************************************************)
\* C10: for every non-null concentration the score returned lies within
\* 0 and 500.
C10_ScoreWithinRange ==
    (pc = "aqi_done" /\ ~IsNone(pm25)) =>
        /\ ~IsNone(aqi)
        /\ 0 <= Val(aqi).num
        /\ Val(aqi).num <= 500 * Val(aqi).den

====
